---- MODULE Spec2Model ----
(***************************************************************************)
(* GoWeatherApp (main.go): a bubbletea terminal program that resolves a    *)
(* location (IP lookup at startup, "City, State" geocoding on submission), *)
(* fetches a daily forecast for it and renders fixed-width columns.        *)
(*                                                                         *)
(* Text is modelled as a sequence of one-character strings, so lengths,    *)
(* splitting, trimming and padding are computed as the Go code computes    *)
(* them.  A Go run-time panic (index out of range, nil dereference,        *)
(* negative Repeat count) is an explicit outcome.                          *)
(***************************************************************************)
EXTENDS Integers, Sequences, FiniteSets, TLC

VARIABLES
    status,      \* "start" | "running" | "quit" | "panicked"
    m,           \* the viewModel held by the bubbletea program
    lastCalls,   \* HTTP lookups issued by the last step, in order, each with its answer
    console,     \* lines printed with fmt.Println by the last step
    lastKey,     \* type of the key message the last step handled
    fmtOp,       \* formatting function applied last (formatting spec)
    fmtArg,      \* its argument
    fmtText,     \* the text a chunk function centres
    fmtN,        \* the number of items of a line function
    fmtWidth,    \* its column width
    fmtOut       \* its outcome: [panic, val]

vars == <<status, m, lastCalls, console, lastKey, fmtOp, fmtArg, fmtText, fmtN, fmtWidth, fmtOut>>
uiVars == <<status, m, lastCalls, console, lastKey>>
fmtVars == <<fmtOp, fmtArg, fmtText, fmtN, fmtWidth, fmtOut>>

----------------------------------------------------------------------------
(* Bounds *)

MaxInput == 3      \* longest input buffer typed character by character
MaxQuitInput == 4  \* longest input buffer when whole words arrive as one message
MaxDays  == 1      \* longest per-day array in a forecast response
MaxItems == 2      \* most columns in a formatted line
MaxWidth == 26     \* widest column explored when formatting
ViewWidth == 25    \* "width := 25" in View

----------------------------------------------------------------------------
(* Text helpers: Go's strings package *)

\* Go integer division truncates toward zero
GoDiv(a, b) == IF a >= 0 THEN a \div b ELSE -((-a) \div b)

LowerChar(c) ==
    CASE c = "Q" -> "q" [] c = "U" -> "u" [] c = "I" -> "i" [] c = "T" -> "t"
      [] c = "A" -> "a" [] OTHER -> c

\* strings.ToLower
ToLower(s) == [i \in DOMAIN s |-> LowerChar(s[i])]

\* index of the first sep in s at or after position i, 0 when none
RECURSIVE IndexFrom(_, _, _)
IndexFrom(s, sep, i) ==
    IF i > Len(s) THEN 0
    ELSE IF s[i] = sep THEN i
    ELSE IndexFrom(s, sep, i + 1)

\* strings.Split(s, sep) for a one-character sep: always at least one part
RECURSIVE Split(_, _)
Split(s, sep) ==
    LET k == IndexFrom(s, sep, 1)
    IN  IF k = 0 THEN <<s>>
        ELSE <<SubSeq(s, 1, k - 1)>> \o Split(SubSeq(s, k + 1, Len(s)), sep)

\* strings.SplitN(s, sep, 2): split at the first sep only
SplitN2(s, sep) ==
    LET k == IndexFrom(s, sep, 1)
    IN  IF k = 0 THEN <<s>>
        ELSE <<SubSeq(s, 1, k - 1), SubSeq(s, k + 1, Len(s))>>

IsSpace(c) == c \in {" ", "\t", "\n", "\r"}

RECURSIVE TrimLeft(_)
TrimLeft(s) ==
    IF s # <<>> /\ IsSpace(Head(s)) THEN TrimLeft(Tail(s)) ELSE s

RECURSIVE TrimRight(_)
TrimRight(s) ==
    IF s # <<>> /\ IsSpace(s[Len(s)]) THEN TrimRight(SubSeq(s, 1, Len(s) - 1)) ELSE s

\* strings.TrimSpace
TrimSpace(s) == TrimRight(TrimLeft(s))

----------------------------------------------------------------------------
(* Records of main.go *)

Empty == <<>>
Unknown == <<"U","n","k","n","o","w","n">>
ZeroCoord == <<"0",".","0">>
Quit == <<"q","u","i","t">>
MessageEnterBoth == "Please enter both a city and a state (e.g., Los Angeles, CA)"

\* type Location struct
Location(ip, city, region, country, latLon, lat, lon) ==
    [IP |-> ip, City |-> city, Region |-> region, Country |-> country,
     LatLon |-> latLon, Lat |-> lat, Lon |-> lon]

ZeroLocation == Location(Empty, Empty, Empty, Empty, Empty, Empty, Empty)

\* Weather.Daily: four arrays decoded from the response
Daily(time, codes, highs, lows) ==
    [Time |-> time, WeatherCode |-> codes, TemperatureMax |-> highs, TemperatureMin |-> lows]

EmptyDaily == Daily(<<>>, <<>>, <<>>, <<>>)

\* type Weather struct.  forLat/forLon are the latitude and longitude the
\* request URL was built with (the query string of getWeatherForLocation):
\* they tell which request a held forecast answers.  The Latitude and
\* Longitude fields decoded from the response are read nowhere.
Weather(lat, lon, daily) == [forLat |-> lat, forLon |-> lon, Daily |-> daily]

ZeroWeather == Weather(Empty, Empty, EmptyDaily)

\* type DailyWeather struct
DailyWeather(time, code, hi, lo) ==
    [Time |-> time, WeatherCode |-> code, TemperatureMax |-> hi, TemperatureMin |-> lo]

\* type viewModel struct
viewModel(input, message, location, dailyWeather, weather) ==
    [input |-> input, message |-> message, location |-> location,
     dailyWeather |-> dailyWeather, weather |-> weather]

ZeroModel == viewModel(Empty, "", ZeroLocation, <<>>, ZeroWeather)

----------------------------------------------------------------------------
(* What the three HTTP services may answer.  kind is how the exchange ends: *)
(* "transport" http.Get returns an error, "read" io.ReadAll returns an      *)
(* error, "decode" json.Unmarshal returns an error, "ok" none of these.     *)

SampleDates == << <<"2","0","2","4","-","1","0","-","1","3">>,
                  <<"n","o","t","-","a","-","d","a","t","e">>,
                  <<"2","0","2","5","-","0","9","-","2","4">> >>
SampleCodes == <<0, 12, 95>>
SampleTemps == <<754, -4, 602>>      \* tenths of a degree

Cycle(seq, i) == seq[((i - 1) % Len(seq)) + 1]

Times(n) == [i \in 1..n |-> Cycle(SampleDates, i)]
Codes(n) == [i \in 1..n |-> Cycle(SampleCodes, i)]
Temps(n) == [i \in 1..n |-> Cycle(SampleTemps, i)]

\* the "daily" objects a response body can carry: the arrays are whatever
\* the server sent, nothing in the decoding makes their lengths agree
ResponseDailies ==
    { Daily(Times(n), Codes(n), Temps(n), Temps(n)) : n \in 0..MaxDays }
    \cup { Daily(Times(n), Codes(n - 1), Temps(n), Temps(n)) : n \in 1..MaxDays }
    \cup { Daily(Times(n - 1), Codes(n), Temps(n), Temps(n)) : n \in 1..MaxDays }

\* json.Unmarshal leaves the target untouched on a syntax error and fills
\* the fields decoded so far on a type error (weather_code of another type)
PartialDailies == { Daily(Times(n), <<>>, Temps(n), Temps(n)) : n \in 0..1 }

ForecastOutcomes ==
    {[kind |-> "transport", daily |-> EmptyDaily], [kind |-> "read", daily |-> EmptyDaily]}
    \cup {[kind |-> "decode", daily |-> d] : d \in PartialDailies}
    \cup {[kind |-> "ok", daily |-> d] : d \in ResponseDailies}

\* type LocationIQResponse struct
LocationIQResponse(lat, lon) == [Lat |-> lat, Lon |-> lon]

Cand1 == LocationIQResponse(<<"4","0",".","7">>, <<"-","7","4">>)
Cand2 == LocationIQResponse(<<"5","1",".","5">>, ZeroCoord)
CandZero == LocationIQResponse(ZeroCoord, ZeroCoord)

GeocodeOutcomes ==
    {[kind |-> k, data |-> <<>>] : k \in {"transport", "read", "decode"}}
    \cup {[kind |-> "ok", data |-> d] :
            d \in {<<>>, <<Cand1>>, <<Cand2>>, <<CandZero>>, <<Cand1, CandZero>>}}

Duluth == <<"D","u","l","u","t","h">>
IPLoc == <<"4","6",".","7",",","-","9","2">>

\* bodies of ipinfo.io/json as decoded into a Location (Lat, Lon not yet split)
IPOutcomes ==
    {[kind |-> k, body |-> ZeroLocation] : k \in {"transport", "read", "decode"}}
    \cup {[kind |-> "ok", body |-> Location(<<"1">>, Duluth, <<"M","N">>, <<"U","S">>, l, Empty, Empty)] :
            l \in {IPLoc, Empty}}

FailureKinds == {"transport", "read", "decode"}

----------------------------------------------------------------------------
(* The lookups.  Each returns [panic, val, console].                        *)

ErrLine == "Error:"

DefaultLocation ==
    Location(<<"0",".","0",".","0",".","0">>,
             <<"M","i","n","n","e","a","p","o","l","i","s">>,
             <<"M","i","n","n","e","s","o","t","a">>,
             <<"U","S">>,
             <<"4","4",".","9","8",",","-","9","3",".","2","6","3","8">>,
             <<"4","4",".","9","8">>,
             <<"-","9","3",".","2","6","3","8">>)

\* func getLocationData() Location
getLocationData(o) ==
    IF o.kind \in FailureKinds
    THEN [panic |-> FALSE, val |-> DefaultLocation, console |-> <<ErrLine>>]
    ELSE LET latLon == SplitN2(o.body.LatLon, ",")
         IN  IF Len(latLon) < 2
             THEN [panic |-> TRUE, val |-> ZeroLocation, console |-> <<>>]   \* latLon[1]: index out of range
             ELSE [panic |-> FALSE,
                   val |-> [o.body EXCEPT !.Lat = latLon[1], !.Lon = latLon[2]],
                   console |-> <<>>]

\* func getWeatherForLocation(lat string, lon string) Weather
getWeatherForLocation(lat, lon, o) ==
    CASE o.kind = "transport" ->
           \* the error is printed, then "defer res.Body.Close()" reads a nil res
           [panic |-> TRUE, val |-> ZeroWeather, console |-> <<ErrLine>>]
      [] o.kind = "read" ->
           \* printed, then the truncated body fails to decode and is printed again
           [panic |-> FALSE, val |-> Weather(lat, lon, EmptyDaily), console |-> <<ErrLine, ErrLine>>]
      [] o.kind = "decode" ->
           [panic |-> FALSE, val |-> Weather(lat, lon, o.daily), console |-> <<ErrLine>>]
      [] OTHER ->
           [panic |-> FALSE, val |-> Weather(lat, lon, o.daily), console |-> <<>>]

\* getLatLonFromCityState taking the last candidate instead of the first
getLatLonFromCityState_Last(city, state, o) ==
    IF o.kind \in FailureKinds
    THEN [lat |-> ZeroCoord, lon |-> ZeroCoord, console |-> <<"Error LocationIQ">>]
    ELSE IF Len(o.data) > 0
         THEN [lat |-> o.data[Len(o.data)].Lat, lon |-> o.data[Len(o.data)].Lon, console |-> <<>>]
         ELSE [lat |-> ZeroCoord, lon |-> ZeroCoord, console |-> <<>>]

\* func getLatLonFromCityState(city, state string) (string, string)
getLatLonFromCityState(city, state, o) ==
    IF o.kind \in FailureKinds
    THEN [lat |-> ZeroCoord, lon |-> ZeroCoord, console |-> <<"Error LocationIQ">>]
    ELSE IF Len(o.data) > 0
         THEN [lat |-> o.data[1].Lat, lon |-> o.data[1].Lon, console |-> <<>>]
         ELSE [lat |-> ZeroCoord, lon |-> ZeroCoord, console |-> <<>>]

\* the loop "for i := 0; i < len(weather.Daily.Time); i++" of initialModel
\* and handleInput: indexes the other three arrays by the length of Time
dailyWeatherArray(weather) ==
    LET d == weather.Daily
        n == Len(d.Time)
    IN  IF Len(d.WeatherCode) < n \/ Len(d.TemperatureMax) < n \/ Len(d.TemperatureMin) < n
        THEN [panic |-> TRUE, val |-> <<>>]                                  \* index out of range
        ELSE [panic |-> FALSE,
              val |-> [i \in 1..n |-> DailyWeather(d.Time[i], d.WeatherCode[i],
                                                   d.TemperatureMax[i], d.TemperatureMin[i])]]

----------------------------------------------------------------------------
(* Weather codes: descriptions and the three rows of ASCII art *)

SunnyCodes == {0}
CloudyCodes == {1, 2, 3}
FogCodes == {45, 48}
RainCodes == {51, 53, 55, 56, 57, 61, 63, 65, 66, 67, 80, 81, 82}
SnowCodes == {71, 73, 75, 77, 85, 86}
ThunderstormCodes == {95, 96, 99}

UnknownWeatherCode == <<"U","n","k","n","o","w","n"," ","w","e","a","t","h","e","r"," ","c","o","d","e">>

\* lipgloss Style.Render: the text as it shows on the terminal; the colour
\* escape sequences a style may add occupy no column
Render(style, text) == text

\* a glyph row: the text and the width the caller centres it by
Glyph(text, width) == [text |-> text, width |-> width]

\* func getWeatherDescriptionFromCode(code int) string
getWeatherDescriptionFromCode(code) ==
    CASE code \in SunnyCodes -> <<"S","u","n","n","y">>
      [] code \in CloudyCodes -> <<"C","l","o","u","d","y">>
      [] code \in FogCodes -> <<"F","o","g">>
      [] code \in RainCodes -> <<"R","a","i","n">>
      [] code \in SnowCodes -> <<"S","n","o","w">>
      [] code \in ThunderstormCodes -> <<"T","h","u","n","d","e","r","s","t","o","r","m">>
      [] OTHER -> UnknownWeatherCode

\* func getASCIILine1ForWeather(code int) (string, int)
getASCIILine1ForWeather(code) ==
    CASE code \in SunnyCodes -> Glyph(Render("sunnyStyle", <<"\\"," ","|"," ","/">>), Len(<<"\\"," ","|"," ","/">>))
      [] code \in CloudyCodes -> Glyph(Render("cloudStyle2", <<" "," ","_","_","_","_">>), Len(<<" "," "," "," ","_","_">>))
      [] code \in FogCodes -> Glyph(<<"o"," ","o"," ","o">>, Len(<<"o"," ","o"," ","o">>))
      [] code \in RainCodes -> Glyph(Render("rainStyle", <<"/"," ","/"," ","/">>), Len(<<"/"," ","/"," ","/">>))
      [] code \in SnowCodes -> Glyph(<<"*"," ","*"," ","*"," ","*">>, Len(<<"*"," ","*"," ","*"," ","*">>))
      [] code \in ThunderstormCodes -> Glyph(<<"("," "," "," ","("," ",")">>, Len(<<"("," "," "," ","("," ",")">>))
      [] OTHER -> Glyph(UnknownWeatherCode, 1)

\* func getASCIILine2ForWeather(code int) (string, int)
getASCIILine2ForWeather(code) ==
    CASE code \in SunnyCodes -> Glyph(Render("sunnyStyle", <<"-","-"," ","O"," ","-","-">>), Len(<<"-","-"," ","O"," ","-","-">>))
      [] code \in CloudyCodes -> Glyph(Render("cloudStyle2", <<"_","("," "," "," "," ",")">>), Len(<<" "," "," ","("," "," ",")">>))
      [] code \in FogCodes -> Glyph(<<"o"," ","o"," ","o"," ","o">>, Len(<<"o"," ","o"," ","o"," ","o">>))
      [] code \in RainCodes -> Glyph(Render("rainStyle", <<"/"," ","/"," ","/"," ","/">>), Len(<<"/"," ","/"," ","/"," ","/">>))
      [] code \in SnowCodes -> Glyph(<<" ","*"," ","*"," ","*">>, Len(<<" ","*"," ","*"," ","*">>))
      [] code \in ThunderstormCodes -> Glyph(<<"("," "," "," ","("," "," "," ",")">>, Len(<<"("," "," "," ","("," "," "," ",")">>))
      [] OTHER -> Glyph(UnknownWeatherCode, 1)

\* func getASCIILine3ForWeather(code int) (string, int)
getASCIILine3ForWeather(code) ==
    CASE code \in SunnyCodes -> Glyph(Render("sunnyStyle", <<"/"," ","|"," ","\\">>), Len(<<"/"," ","|"," ","\\">>))
      [] code \in CloudyCodes -> Glyph(<<"(","_","_","_","_",")","_","_","_",")">>, Len(<<"(","_","_","_","_",")","_","_","_",")">>))
      [] code \in FogCodes -> Glyph(<<"o"," ","o"," ","o">>, Len(<<"o"," ","o"," ","o">>))
      [] code \in RainCodes -> Glyph(Render("rainStyle", <<"/"," ","/"," "," ","/">>), Len(<<"/"," ","/"," "," ","/">>))
      [] code \in SnowCodes -> Glyph(<<"*"," ","*"," ","*"," ","*">>, Len(<<"*"," ","*"," ","*"," ","*">>))
      [] code \in ThunderstormCodes -> Glyph(<<"/"," ","/"," ","/"," ","/">>, Len(<<"/"," ","/"," ","/"," ","/">>))
      [] OTHER -> Glyph(UnknownWeatherCode, 1)

----------------------------------------------------------------------------
(* Dates and numbers as text *)

DigitChars == <<"0","1","2","3","4","5","6","7","8","9">>

IsDigit(c) == \E i \in 1..10 : DigitChars[i] = c

DigitVal(c) == (CHOOSE i \in 1..10 : DigitChars[i] = c) - 1

\* decimal text of a natural number
RECURSIVE Itoa(_)
Itoa(n) == IF n < 10 THEN <<DigitChars[n + 1]>> ELSE Itoa(n \div 10) \o <<DigitChars[(n % 10) + 1]>>

WeekdayNames == <<
    <<"S","u","n","d","a","y">>,
    <<"M","o","n","d","a","y">>,
    <<"T","u","e","s","d","a","y">>,
    <<"W","e","d","n","e","s","d","a","y">>,
    <<"T","h","u","r","s","d","a","y">>,
    <<"F","r","i","d","a","y">>,
    <<"S","a","t","u","r","d","a","y">> >>

MonthNames == <<
    <<"J","a","n","u","a","r","y">>,
    <<"F","e","b","r","u","a","r","y">>,
    <<"M","a","r","c","h">>,
    <<"A","p","r","i","l">>,
    <<"M","a","y">>,
    <<"J","u","n","e">>,
    <<"J","u","l","y">>,
    <<"A","u","g","u","s","t">>,
    <<"S","e","p","t","e","m","b","e","r">>,
    <<"O","c","t","o","b","e","r">>,
    <<"N","o","v","e","m","b","e","r">>,
    <<"D","e","c","e","m","b","e","r">> >>

IsLeap(y) == (y % 4 = 0 /\ y % 100 # 0) \/ y % 400 = 0

DaysIn(mo, y) ==
    IF mo = 2 THEN (IF IsLeap(y) THEN 29 ELSE 28)
    ELSE IF mo \in {4, 6, 9, 11} THEN 30 ELSE 31

\* day of the week, 0 = Sunday, of a date of the Gregorian calendar
Weekday(y, mo, d) ==
    LET t == <<0, 3, 2, 5, 0, 3, 5, 1, 4, 6, 2, 4>>
        yy == IF mo < 3 THEN y - 1 ELSE y
    IN  (yy + (yy \div 4) - (yy \div 100) + (yy \div 400) + t[mo] + d) % 7

\* func formatDate(dateStr string) string: time.Parse with layout
\* "2006-01-02", then Format("Monday January 2"); "" when it does not parse
formatDate(dateStr) ==
    LET digitsAt(I) == \A i \in I : IsDigit(dateStr[i])
        shape == /\ Len(dateStr) = 10
                 /\ dateStr[5] = "-" /\ dateStr[8] = "-"
                 /\ digitsAt({1, 2, 3, 4, 6, 7, 9, 10})
    IN  IF ~shape THEN <<>>
        ELSE LET y == 1000 * DigitVal(dateStr[1]) + 100 * DigitVal(dateStr[2])
                      + 10 * DigitVal(dateStr[3]) + DigitVal(dateStr[4])
                 mo == 10 * DigitVal(dateStr[6]) + DigitVal(dateStr[7])
                 d == 10 * DigitVal(dateStr[9]) + DigitVal(dateStr[10])
             IN  IF mo < 1 \/ mo > 12 \/ d < 1 \/ d > DaysIn(mo, y) THEN <<>>
                 ELSE WeekdayNames[Weekday(y, mo, d) + 1] \o <<" ">>
                      \o MonthNames[mo] \o <<" ">> \o Itoa(d)

\* fmt.Sprintf("%.0f", t) for a temperature given in tenths of a degree:
\* nearest integer, a tie to the even one, the sign kept even before "0"
Fmt0f(t) ==
    LET a == IF t < 0 THEN -t ELSE t
        q == a \div 10
        r == a % 10
        n == IF r > 5 \/ (r = 5 /\ q % 2 = 1) THEN q + 1 ELSE q
    IN  (IF t < 0 THEN <<"-">> ELSE <<>>) \o Itoa(n)

----------------------------------------------------------------------------
(* Fixed-width chunks and lines.  Each returns [panic, val].               *)

Spaces(n) == [i \in 1..n |-> " "]

\* strings.Repeat(" ", count): panics on a negative count
Repeat(count) ==
    IF count < 0 THEN [panic |-> TRUE, val |-> <<>>]
    ELSE [panic |-> FALSE, val |-> Spaces(count)]

\* Pad rounding the left padding up, so that an odd space goes to the left
Pad_ExtraLeft(text, textWidth, width) ==
    LET padding == GoDiv(width - textWidth + 1, 2)
        left == Repeat(padding)
        right == Repeat(width - textWidth - padding)
    IN  IF left.panic \/ right.panic THEN [panic |-> TRUE, val |-> <<>>]
        ELSE [panic |-> FALSE, val |-> left.val \o text \o right.val]

\* "padding := (width - len) / 2" and the Repeat, text, Repeat that every
\* chunk function returns; textWidth is the length the padding is computed from
Pad(text, textWidth, width) ==
    LET padding == GoDiv(width - textWidth, 2)
        left == Repeat(padding)
        right == Repeat(width - textWidth - padding)
    IN  IF left.panic \/ right.panic THEN [panic |-> TRUE, val |-> <<>>]
        ELSE [panic |-> FALSE, val |-> left.val \o text \o right.val]

\* func formatDatesChunk(text string, width int) string
formatDatesChunk(text, width) ==
    LET date == formatDate(text) IN Pad(date, Len(date), width)

\* func formatHighsChunk(high float64, width int) string
formatHighsChunk(high, width) ==
    LET text == <<"H","i","g","h"," ">> \o Fmt0f(high) IN Pad(text, Len(text), width)

\* func formatLowsChunk(low float64, width int) string
formatLowsChunk(low, width) ==
    LET text == <<"L","o","w"," ">> \o Fmt0f(low) IN Pad(text, Len(text), width)

\* func formatWeatherCodeChunk(code int, width int) string
formatWeatherCodeChunk(code, width) ==
    LET weatherCode == getWeatherDescriptionFromCode(code)
    IN  Pad(weatherCode, Len(weatherCode), width)

\* func formatASCIICodeChunk(code int, width int, lineNumber int) string
formatASCIICodeChunk(code, width, lineNumber) ==
    LET g == CASE lineNumber = 1 -> getASCIILine1ForWeather(code)
               [] lineNumber = 2 -> getASCIILine2ForWeather(code)
               [] lineNumber = 3 -> getASCIILine3ForWeather(code)
               [] OTHER -> Glyph(<<"U","n","k","o","w","n">>, 9)
    IN  Pad(g.text, g.width, width)

Separator == <<" ", "|", " ">>

\* strings.Join(chunks, sep)
RECURSIVE Join(_, _)
Join(chunks, sep) ==
    IF chunks = <<>> THEN <<>>
    ELSE IF Len(chunks) = 1 THEN chunks[1]
    ELSE chunks[1] \o sep \o Join(Tail(chunks), sep)

\* the loop that fills chunks, then the Join: a panicking chunk ends it
Line(chunks) ==
    IF \E i \in DOMAIN chunks : chunks[i].panic
    THEN [panic |-> TRUE, val |-> <<>>]
    ELSE [panic |-> FALSE, val |-> Join([i \in DOMAIN chunks |-> chunks[i].val], Separator)]

\* func formatDatesLine(dates []string, width int) string
formatDatesLine(dates, width) ==
    Line([i \in DOMAIN dates |-> formatDatesChunk(dates[i], width)])

\* func formatHighsLine(highs []float64, width int) string
formatHighsLine(highs, width) ==
    Line([i \in DOMAIN highs |-> formatHighsChunk(highs[i], width)])

\* func formatLowsLine(lows []float64, width int) string
formatLowsLine(lows, width) ==
    Line([i \in DOMAIN lows |-> formatLowsChunk(lows[i], width)])

\* func formatSpaceLine(numOfChunks int, width int) string
formatSpaceLine(numOfChunks, width) ==
    Line([i \in 1..numOfChunks |-> Repeat(width)])

\* func formatWeatherCodeLine(codes []int, width int) string
formatWeatherCodeLine(codes, width) ==
    Line([i \in DOMAIN codes |-> formatWeatherCodeChunk(codes[i], width)])

\* func formatVisualWeatherLine(codes []int, width int, lineNumber int) string
formatVisualWeatherLine(codes, width, lineNumber) ==
    Line([i \in DOMAIN codes |-> formatASCIICodeChunk(codes[i], width, lineNumber)])

\* the nine rows View builds, in order
ViewRows(mm, width) ==
    LET dates == mm.weather.Daily.Time
        highs == mm.weather.Daily.TemperatureMax
        lows == mm.weather.Daily.TemperatureMin
        codes == mm.weather.Daily.WeatherCode
    IN  << formatDatesLine(dates, width),
           formatSpaceLine(Len(dates), width),
           formatVisualWeatherLine(codes, width, 1),
           formatVisualWeatherLine(codes, width, 2),
           formatVisualWeatherLine(codes, width, 3),
           formatSpaceLine(Len(dates), width),
           formatWeatherCodeLine(codes, width),
           formatHighsLine(highs, width),
           formatLowsLine(lows, width) >>

\* func (m viewModel) View() string
View(mm) ==
    LET rows == ViewRows(mm, ViewWidth)
        nl == <<"\n">>
        header == nl \o <<"W","e","a","t","h","e","r"," ","f","o","r"," ">> \o mm.location.City \o <<",", " ">> \o mm.location.Region \o nl
                  \o <<"L","a","t","i","t","u","d","e",":"," ">> \o mm.location.Lat \o <<","," ","L","o","n","g","i","t","u","d","e",":"," ">> \o mm.location.Lon \o nl \o nl
        prompt == nl \o <<"E","n","t","e","r"," ","a"," ","c","i","t","y"," ","a","n","d"," ","s","t","a","t","e"," ","(","e",".","g",".",","," ","L","o","s"," ","A","n","g","e","l","e","s",","," ","C","A",")"," ","t","o"," ","g","e","t"," ","w","e","a","t","h","e","r"," ","o","r"," ","t","y","p","e"," ","'","q","u","i","t","'"," ","t","o"," ","e","x","i","t",":"," ">> \o nl \o mm.input
    IN  IF \E i \in 1..9 : rows[i].panic THEN [panic |-> TRUE, val |-> <<>>]
        ELSE [panic |-> FALSE,
              val |-> header \o Join([i \in 1..9 |-> rows[i].val], nl) \o nl \o nl \o prompt]

----------------------------------------------------------------------------
(* The model and its handlers.  A handler returns [panic, m, cmd, calls,    *)
(* console]: whether it panicked, the model it returns, the command, the   *)
(* lookups it issued and the lines it printed.                             *)

\* an HTTP lookup and how it was answered
Call(api, answer) == [api |-> api, answer |-> answer]

\* func initialModel() viewModel
initialModel(ip, wx) ==
    LET loc == getLocationData(ip)
        startingLocation == loc.val
        w == getWeatherForLocation(startingLocation.Lat, startingLocation.Lon, wx)
        dwa == dailyWeatherArray(w.val)
        ipCall == <<Call("ip", ip)>>
        wxCall == <<Call("forecast", wx)>>
    IN  IF loc.panic
        THEN [panic |-> TRUE, m |-> ZeroModel, cmd |-> "nil", calls |-> ipCall, console |-> loc.console]
        ELSE IF w.panic \/ dwa.panic
        THEN [panic |-> TRUE, m |-> ZeroModel, cmd |-> "nil",
              calls |-> ipCall \o wxCall, console |-> loc.console \o w.console]
        ELSE [panic |-> FALSE,
              m |-> viewModel(Empty, "", startingLocation, dwa.val, w.val),
              cmd |-> "nil",
              calls |-> ipCall \o wxCall, console |-> loc.console \o w.console]

\* handleInput storing the new Location without the forecast fetched for it
handleInput_StaleWeather(mm, input, geo, wx) ==
    LET parts == Split(input, ",")
    IN  IF Len(parts) < 2
        THEN \* the message is set on the copy, then parts[1] is out of range
             [panic |-> TRUE, m |-> [mm EXCEPT !.message = MessageEnterBoth],
              cmd |-> "nil", calls |-> <<>>, console |-> <<>>]
        ELSE
        LET city == TrimSpace(parts[1])
            state == TrimSpace(parts[2])
            ll == getLatLonFromCityState(city, state, geo)
            found == Location(Empty, city, state, Empty, Empty, ll.lat, ll.lon)
            location == IF ll.lat = ZeroCoord /\ ll.lon = ZeroCoord
                        THEN [found EXCEPT !.City = Unknown, !.Region = Unknown]
                        ELSE found
            w == getWeatherForLocation(location.Lat, location.Lon, wx)
            dwa == dailyWeatherArray(w.val)
            calls == <<Call("geocode", geo), Call("forecast", wx)>>
        IN  IF w.panic \/ dwa.panic
            THEN [panic |-> TRUE, m |-> mm, cmd |-> "nil",
                  calls |-> calls, console |-> ll.console \o w.console]
            ELSE [panic |-> FALSE,
                  m |-> [mm EXCEPT !.location = location, !.input = Empty],
                  cmd |-> "nil",
                  calls |-> calls, console |-> ll.console \o w.console]

\* func (m viewModel) handleInput(input string) viewModel
handleInput(mm, input, geo, wx) ==
    LET parts == Split(input, ",")
    IN  IF Len(parts) < 2
        THEN \* the message is set on the copy, then parts[1] is out of range
             [panic |-> TRUE, m |-> [mm EXCEPT !.message = MessageEnterBoth],
              cmd |-> "nil", calls |-> <<>>, console |-> <<>>]
        ELSE
        LET city == TrimSpace(parts[1])
            state == TrimSpace(parts[2])
            ll == getLatLonFromCityState(city, state, geo)
            found == Location(Empty, city, state, Empty, Empty, ll.lat, ll.lon)
            location == IF ll.lat = ZeroCoord /\ ll.lon = ZeroCoord
                        THEN [found EXCEPT !.City = Unknown, !.Region = Unknown]
                        ELSE found
            w == getWeatherForLocation(location.Lat, location.Lon, wx)
            dwa == dailyWeatherArray(w.val)
            calls == <<Call("geocode", geo), Call("forecast", wx)>>
        IN  IF w.panic \/ dwa.panic
            THEN [panic |-> TRUE, m |-> mm, cmd |-> "nil",
                  calls |-> calls, console |-> ll.console \o w.console]
            ELSE [panic |-> FALSE,
                  m |-> [mm EXCEPT !.location = location, !.dailyWeather = dwa.val,
                                   !.weather = w.val, !.input = Empty],
                  cmd |-> "nil",
                  calls |-> calls, console |-> ll.console \o w.console]

KeyMsg(type, str) == [Type |-> type, String |-> str]

\* Update comparing the input buffer with "quit" as typed
Update_CaseSensitive(mm, msg, geo, wx) ==
    LET same == [panic |-> FALSE, m |-> mm, cmd |-> "nil", calls |-> <<>>, console |-> <<>>]
    IN  CASE msg.Type = "KeyEnter" ->
               IF mm.input = Quit
               THEN [same EXCEPT !.cmd = "Quit"]
               ELSE handleInput(mm, mm.input, geo, wx)
          [] msg.Type = "KeyBackspace" ->
               IF Len(mm.input) > 0
               THEN [same EXCEPT !.m.input = SubSeq(mm.input, 1, Len(mm.input) - 1)]
               ELSE same
          [] msg.Type = "KeyCtrlC" ->
               [same EXCEPT !.cmd = "Quit"]
          [] OTHER ->
               [same EXCEPT !.m.input = mm.input \o msg.String]

\* func (m viewModel) Update(msg tea.Msg) (tea.Model, tea.Cmd)
Update(mm, msg, geo, wx) ==
    LET same == [panic |-> FALSE, m |-> mm, cmd |-> "nil", calls |-> <<>>, console |-> <<>>]
    IN  CASE msg.Type = "KeyEnter" ->
               IF ToLower(mm.input) = Quit
               THEN [same EXCEPT !.cmd = "Quit"]
               ELSE handleInput(mm, mm.input, geo, wx)
          [] msg.Type = "KeyBackspace" ->
               IF Len(mm.input) > 0
               THEN [same EXCEPT !.m.input = SubSeq(mm.input, 1, Len(mm.input) - 1)]
               ELSE same
          [] msg.Type = "KeyCtrlC" ->
               [same EXCEPT !.cmd = "Quit"]
          [] OTHER ->
               [same EXCEPT !.m.input = mm.input \o msg.String]

----------------------------------------------------------------------------
(* The program: main builds the initial model, then bubbletea feeds key    *)
(* events to Update one at a time until a Quit command or a panic.         *)

\* what msg.String() can be for a key that is none of Enter, Backspace,
\* Ctrl-C: a typed character, or several runes delivered as one message
TypedKeys == { <<"a">>, <<",">>, <<" ">> }
QuitWords == { <<"q","u","i","t">>, <<"Q","U","I","T">>, <<"Q","u","i","t">> }
QuitKeys == QuitWords \cup { <<",">> }

\* the services are not contacted by a step that issues no lookup
NoGeocode == [kind |-> "none", data |-> <<>>]
NoForecast == [kind |-> "none", daily |-> EmptyDaily]

\* p.Run(): the model returned by a handler replaces the held one; a Quit
\* command ends the loop; a panic ends the program
Apply(r) ==
    /\ lastCalls' = r.calls
    /\ console' = r.console
    /\ IF r.panic
       THEN status' = "panicked" /\ m' = m
       ELSE /\ m' = r.m
            /\ status' = IF r.cmd = "Quit" THEN "quit" ELSE "running"

Startup ==
    /\ status = "start"
    /\ \E ip \in IPOutcomes, wx \in ForecastOutcomes : Apply(initialModel(ip, wx))
    /\ lastKey' = "none"
    /\ UNCHANGED fmtVars

PressEnter ==
    /\ status = "running"
    /\ \E geo \in GeocodeOutcomes, wx \in ForecastOutcomes :
          Apply(Update(m, KeyMsg("KeyEnter", <<>>), geo, wx))
    /\ lastKey' = "KeyEnter"
    /\ UNCHANGED fmtVars

PressBackspace ==
    /\ status = "running"
    /\ Apply(Update(m, KeyMsg("KeyBackspace", <<>>), NoGeocode, NoForecast))
    /\ lastKey' = "KeyBackspace"
    /\ UNCHANGED fmtVars

PressCtrlC ==
    /\ status = "running"
    /\ Apply(Update(m, KeyMsg("KeyCtrlC", <<>>), NoGeocode, NoForecast))
    /\ lastKey' = "KeyCtrlC"
    /\ UNCHANGED fmtVars

PressOther(keys, limit) ==
    /\ \E k \in keys :
          /\ Len(m.input) + Len(k) <= limit
          /\ Apply(Update(m, KeyMsg("KeyRunes", k), NoGeocode, NoForecast))
    /\ lastKey' = "KeyRunes"
    /\ UNCHANGED fmtVars

TypeKey ==
    /\ status = "running"
    /\ PressOther(TypedKeys, MaxInput)

PasteKey ==
    /\ status = "running"
    /\ PressOther(QuitKeys, MaxQuitInput)

NoFormat == /\ fmtOp = "none" /\ fmtArg = <<>> /\ fmtText = <<>> /\ fmtN = 0 /\ fmtWidth = 0
            /\ fmtOut = [panic |-> FALSE, val |-> <<>>]

Init ==
    /\ status = "start"
    /\ m = ZeroModel
    /\ lastCalls = <<>>
    /\ console = <<>>
    /\ lastKey = "none"
    /\ NoFormat

\* the user types a query character by character
Next == Startup \/ PressEnter \/ PressBackspace \/ PressCtrlC \/ TypeKey

Spec == Init /\ [][Next]_vars

\* whole words reach the input buffer as one key message
NextQuit == Startup \/ PressEnter \/ PressBackspace \/ PressCtrlC \/ PasteKey

SpecQuit == Init /\ [][NextQuit]_vars

----------------------------------------------------------------------------
(* The formatting functions on their own: each action applies one of them  *)
(* to inputs drawn from the sets below and records input and outcome.      *)

FmtDates == { <<"2","0","2","4","-","1","0","-","1","3">>,
              <<"2","0","2","5","-","0","9","-","2","4">>,
              <<"2","0","2","4","-","0","2","-","2","9">>,
              <<"2","0","2","3","-","0","2","-","2","9">>,
              <<"2","0","2","4","-","1","3","-","0","1">>,
              <<"n","o","t","-","a","-","d","a","t","e">>,
              <<>> }
FmtTemps == {754, 602, -4, 5, 15, 25, 0, -1000}
FmtCodes == {0, 2, 45, 61, 71, 95, 12, -1}
Widths == 0..MaxWidth
LineWidths == (MaxWidth - 2)..MaxWidth
LineNumbers == {1, 2, 3}

SeqsUpTo(S, n) == UNION { [1..k -> S] : k \in 0..n }

TextChunkOps == {"formatDatesChunk", "formatHighsChunk", "formatLowsChunk", "formatWeatherCodeChunk"}
ChunkOps == TextChunkOps \cup {"formatASCIICodeChunk"}
LineOps == {"formatDatesLine", "formatSpaceLine", "formatVisualWeatherLine",
            "formatWeatherCodeLine", "formatHighsLine", "formatLowsLine"}

\* input of a formatting step: the argument, the text it stands for (chunk
\* functions), the number of items (line functions)
FmtInput(a, t, k) == <<a, t, k>>

Formatted(op, in, width, out) ==
    /\ fmtOp' = op
    /\ fmtArg' = in[1]
    /\ fmtText' = in[2]
    /\ fmtN' = in[3]
    /\ fmtWidth' = width
    /\ fmtOut' = out
    /\ UNCHANGED uiVars

ApplyDatesChunk ==
    /\ fmtOp = "none"
    /\ \E d \in FmtDates, w \in Widths :
          Formatted("formatDatesChunk", FmtInput(d, formatDate(d), 1), w, formatDatesChunk(d, w))

ApplyHighsChunk ==
    /\ fmtOp = "none"
    /\ \E t \in FmtTemps, w \in Widths :
          Formatted("formatHighsChunk", FmtInput(t, <<"H","i","g","h"," ">> \o Fmt0f(t), 1), w,
                    formatHighsChunk(t, w))

ApplyLowsChunk ==
    /\ fmtOp = "none"
    /\ \E t \in FmtTemps, w \in Widths :
          Formatted("formatLowsChunk", FmtInput(t, <<"L","o","w"," ">> \o Fmt0f(t), 1), w,
                    formatLowsChunk(t, w))

ApplyWeatherCodeChunk ==
    /\ fmtOp = "none"
    /\ \E c \in FmtCodes, w \in Widths :
          Formatted("formatWeatherCodeChunk", FmtInput(c, getWeatherDescriptionFromCode(c), 1), w,
                    formatWeatherCodeChunk(c, w))

GlyphText(c, l) ==
    CASE l = 1 -> getASCIILine1ForWeather(c).text
      [] l = 2 -> getASCIILine2ForWeather(c).text
      [] OTHER -> getASCIILine3ForWeather(c).text

ApplyASCIICodeChunk ==
    /\ fmtOp = "none"
    /\ \E c \in FmtCodes, w \in Widths, l \in LineNumbers :
          Formatted("formatASCIICodeChunk", FmtInput(<<c, l>>, GlyphText(c, l), 1), w,
                    formatASCIICodeChunk(c, w, l))

ApplyDatesLine ==
    /\ fmtOp = "none"
    /\ \E ds \in SeqsUpTo(FmtDates, MaxItems), w \in LineWidths :
          Formatted("formatDatesLine", FmtInput(ds, <<>>, Len(ds)), w, formatDatesLine(ds, w))

ApplySpaceLine ==
    /\ fmtOp = "none"
    /\ \E n \in 0..MaxItems, w \in LineWidths :
          Formatted("formatSpaceLine", FmtInput(n, <<>>, n), w, formatSpaceLine(n, w))

ApplyVisualWeatherLine ==
    /\ fmtOp = "none"
    /\ \E cs \in SeqsUpTo(FmtCodes, MaxItems), w \in LineWidths, l \in LineNumbers :
          Formatted("formatVisualWeatherLine", FmtInput(<<cs, l>>, <<>>, Len(cs)), w,
                    formatVisualWeatherLine(cs, w, l))

ApplyWeatherCodeLine ==
    /\ fmtOp = "none"
    /\ \E cs \in SeqsUpTo(FmtCodes, MaxItems), w \in LineWidths :
          Formatted("formatWeatherCodeLine", FmtInput(cs, <<>>, Len(cs)), w, formatWeatherCodeLine(cs, w))

ApplyHighsLine ==
    /\ fmtOp = "none"
    /\ \E ts \in SeqsUpTo(FmtTemps, MaxItems), w \in LineWidths :
          Formatted("formatHighsLine", FmtInput(ts, <<>>, Len(ts)), w, formatHighsLine(ts, w))

ApplyLowsLine ==
    /\ fmtOp = "none"
    /\ \E ts \in SeqsUpTo(FmtTemps, MaxItems), w \in LineWidths :
          Formatted("formatLowsLine", FmtInput(ts, <<>>, Len(ts)), w, formatLowsLine(ts, w))

\* View of a model as initialModel builds it from a forecast response
ApplyView ==
    /\ fmtOp = "none"
    /\ \E d \in ResponseDailies :
          LET w == Weather(DefaultLocation.Lat, DefaultLocation.Lon, d)
              mm == viewModel(Empty, "", DefaultLocation, <<>>, w)
          IN  Formatted("View", FmtInput(d, <<>>, Len(d.Time)), ViewWidth, View(mm))

InitFmt == Init

NextFmt ==
    \/ ApplyDatesChunk \/ ApplyHighsChunk \/ ApplyLowsChunk \/ ApplyWeatherCodeChunk
    \/ ApplyASCIICodeChunk
    \/ ApplyDatesLine \/ ApplySpaceLine \/ ApplyVisualWeatherLine \/ ApplyWeatherCodeLine
    \/ ApplyHighsLine \/ ApplyLowsLine
    \/ ApplyView

SpecFmt == InitFmt /\ [][NextFmt]_vars

----------------------------------------------------------------------------
(* Properties of the interactive program *)

HasComma(s) == IndexFrom(s, ",", 1) # 0

AllQuitCasings ==
    { <<a, b, c, d>> : a \in {"q", "Q"}, b \in {"u", "U"}, c \in {"i", "I"}, d \in {"t", "T"} }

\* the lookups of the last step, by name
Apis(calls) == [i \in DOMAIN calls |-> calls[i].api]

\* this step is Enter on a non-quit input buffer
IsSubmit ==
    /\ status = "running"
    /\ lastKey' = "KeyEnter"
    /\ m.input \notin AllQuitCasings

SameLengths(d) ==
    /\ Len(d.WeatherCode) = Len(d.Time)
    /\ Len(d.TemperatureMax) = Len(d.Time)
    /\ Len(d.TemperatureMin) = Len(d.Time)

\* C1: Enter on a non-quit input buffer without a comma sets the message,
\* keeps the held Location and forecast, and the step does not fail.
C1_NoCommaKeepsState ==
    [][ (IsSubmit /\ ~HasComma(m.input))
        => /\ status' = "running"
           /\ m'.message = MessageEnterBoth
           /\ m'.location = m.location
           /\ m'.weather = m.weather
           /\ m'.dailyWeather = m.dailyWeather ]_vars

\* C2: a transport, read or decode failure of the IP lookup, the geocode
\* lookup or the forecast fetch is logged, replaced by the default value
\* (default location, "0.0","0.0", empty forecast) and the program goes on
\* to the interactive view.
C2_FailuresNotFatal ==
    \A i \in DOMAIN lastCalls :
        lastCalls[i].answer.kind \in FailureKinds =>
            /\ status = "running"
            /\ console # <<>>
            /\ lastCalls[i].api = "ip" => m.location = DefaultLocation
            /\ lastCalls[i].api = "geocode" =>
                  m.location.Lat = ZeroCoord /\ m.location.Lon = ZeroCoord
            /\ lastCalls[i].api = "forecast" => m.weather.Daily = EmptyDaily

\* C3: the held forecast is always the one fetched for the latitude and
\* longitude of the held Location, and Location and forecast change only in
\* a step that fetches a forecast and stores both (startup, a submission).
C3_ForecastOfLocation ==
    [][ /\ m'.weather.forLat = m'.location.Lat
        /\ m'.weather.forLon = m'.location.Lon
        /\ (m'.location # m.location \/ m'.weather # m.weather \/ m'.dailyWeather # m.dailyWeather) =>
             /\ status = "start" \/ lastKey' = "KeyEnter"
             /\ lastCalls' # <<>>
             /\ lastCalls'[Len(lastCalls')].api = "forecast"
             /\ m'.weather.Daily = lastCalls'[Len(lastCalls')].answer.daily
             /\ status' = "running"
             /\ Len(m'.dailyWeather) = Len(m'.weather.Daily.Time)
      ]_vars

C3_Witness ==
    /\ status = "running" /\ lastKey = "KeyEnter"
    /\ m.location.City = <<"a">>
    /\ m.location.Lat = Cand1.Lat
    /\ m.weather.forLat = Cand1.Lat
    /\ Len(m.weather.Daily.Time) = 1

\* C4: Enter on an input buffer that spells "quit" in any letter case ends
\* the program, issues no lookup and leaves the held model as it was.
C4_QuitAnyCase ==
    [][ (status = "running" /\ lastKey' = "KeyEnter" /\ m.input \in AllQuitCasings)
        => /\ status' = "quit"
           /\ lastCalls' = <<>>
           /\ m' = m ]_vars

C4_Witness ==
    /\ status = "quit" /\ lastKey = "KeyEnter"
    /\ m.input = <<"Q","U","I","T">>
    /\ lastCalls = <<>>
    /\ m.location.Lat = Cand1.Lat

\* the city and state a submission is expected to keep, given what was typed
TypedCity(input) == TrimSpace(Split(input, ",")[1])
TypedState(input) == TrimSpace(Split(input, ",")[2])

IsUnknownAtZero(loc) ==
    /\ loc.City = Unknown /\ loc.Region = Unknown
    /\ loc.Lat = ZeroCoord /\ loc.Lon = ZeroCoord

\* C5 (as stated): no candidate or a failed lookup gives Unknown/Unknown at
\* "0.0","0.0"; at least one candidate gives the typed, trimmed city and
\* state with the first candidate's latitude and longitude.
C5_AsStated ==
    [][ (IsSubmit /\ HasComma(m.input) /\ status' = "running") =>
          LET geo == lastCalls'[1].answer
          IN  IF geo.kind \in FailureKinds \/ Len(geo.data) = 0
              THEN IsUnknownAtZero(m'.location)
              ELSE /\ m'.location.City = TypedCity(m.input)
                   /\ m'.location.Region = TypedState(m.input)
                   /\ m'.location.Lat = geo.data[1].Lat
                   /\ m'.location.Lon = geo.data[1].Lon
      ]_vars

\* C5 (amended): as stated, except that a first candidate whose latitude
\* and longitude are both "0.0" also gives Unknown/Unknown at "0.0","0.0".
C5_Amended ==
    [][ (IsSubmit /\ HasComma(m.input) /\ status' = "running") =>
          LET geo == lastCalls'[1].answer
          IN  /\ lastCalls'[1].api = "geocode"
              /\ IF \/ geo.kind \in FailureKinds
                    \/ Len(geo.data) = 0
                    \/ (geo.data[1].Lat = ZeroCoord /\ geo.data[1].Lon = ZeroCoord)
                 THEN IsUnknownAtZero(m'.location)
                 ELSE /\ m'.location.City = TypedCity(m.input)
                      /\ m'.location.Region = TypedState(m.input)
                      /\ m'.location.Lat = geo.data[1].Lat
                      /\ m'.location.Lon = geo.data[1].Lon
      ]_vars

C5_Witness ==
    /\ status = "running" /\ lastKey = "KeyEnter"
    /\ lastCalls # <<>> /\ lastCalls[1].answer.kind = "ok"
    /\ lastCalls[1].answer.data = <<Cand2>>
    /\ m.location.City = <<"a">> /\ m.location.Region = <<"a">>
    /\ m.location.Lat = Cand2.Lat /\ m.location.Lon = ZeroCoord

\* C6: lookups are issued only by Enter on a non-quit input buffer, which
\* issues one geocode call then one forecast call, and by startup (the IP
\* lookup, then the forecast, neither repeated); a character or backspace
\* issues none and changes only the input buffer.
C6_LookupsOnlyOnSubmit ==
    [][ /\ status = "start" => Apis(lastCalls') \in {<<"ip">>, <<"ip", "forecast">>}
        /\ status = "running" =>
             IF IsSubmit
             THEN Apis(lastCalls') = <<"geocode", "forecast">>
             ELSE /\ lastCalls' = <<>>
                  /\ lastKey' \in {"KeyBackspace", "KeyRunes"} =>
                       status' = "running" /\ m' = [m EXCEPT !.input = m'.input]
      ]_vars

\* C10: after startup and after a submission, whatever response the
\* forecast fetch decoded, the step completes and the four per-day arrays
\* held have one length, with one DailyWeather per date.
C10_ArraysAligned ==
    \A i \in DOMAIN lastCalls :
        (lastCalls[i].api = "forecast" /\ lastCalls[i].answer.kind = "ok") =>
            /\ status = "running"
            /\ SameLengths(m.weather.Daily)
            /\ Len(m.dailyWeather) = Len(m.weather.Daily.Time)

----------------------------------------------------------------------------
(* Properties of the formatting functions *)

\* C7: a text no longer than the width is centred into exactly width
\* characters: (width - len) / 2 spaces, the text, the remaining spaces, so
\* an odd leftover space goes to the right.
C7_CenteredChunk ==
    (fmtOp \in TextChunkOps /\ Len(fmtText) <= fmtWidth) =>
        LET left == (fmtWidth - Len(fmtText)) \div 2
            right == fmtWidth - Len(fmtText) - left
        IN  /\ ~fmtOut.panic
            /\ Len(fmtOut.val) = fmtWidth
            /\ right - left \in {0, 1}
            /\ SubSeq(fmtOut.val, 1, left) = Spaces(left)
            /\ SubSeq(fmtOut.val, left + 1, left + Len(fmtText)) = fmtText
            /\ SubSeq(fmtOut.val, left + Len(fmtText) + 1, fmtWidth) = Spaces(right)

C7_Witness ==
    /\ fmtOp = "formatHighsChunk"
    /\ fmtText = <<"H","i","g","h"," ","7","5">>
    /\ fmtWidth = MaxWidth
    /\ (fmtWidth - Len(fmtText)) % 2 = 1
    /\ ~fmtOut.panic

\* C8: a text longer than the width is returned as it is, the negative pad
\* counts taken as zero, instead of failing.
C8_LongTextClamped ==
    (fmtOp \in ChunkOps /\ Len(fmtText) > fmtWidth) =>
        /\ ~fmtOut.panic
        /\ fmtOut.val = fmtText

\* C9: a line of n >= 1 items of width w has length n*w + (n-1)*3, its
\* columns w wide and separated by " | ", whatever the weather codes.
C9_LineLength ==
    (fmtOp \in LineOps /\ fmtN >= 1) =>
        /\ ~fmtOut.panic
        /\ Len(fmtOut.val) = fmtN * fmtWidth + (fmtN - 1) * 3
        /\ \A i \in 1..(fmtN - 1) :
              SubSeq(fmtOut.val, i * (fmtWidth + 3) - 2, i * (fmtWidth + 3)) = Separator

====
